---- MODULE Spec2Model ----
(***************************************************************************)
(* A model of stargazed (src/index.js): the options validator, the        *)
(* paginated fetch loop, the aggregator, the template renderer and the    *)
(* README writer, as one state machine per process.                       *)
(***************************************************************************)
EXTENDS Integers, Sequences, FiniteSets, TLC

VARIABLES
    options,        \* the module-level canonical options record (line 13)
    _options,       \* the argument of the running invocation
    err,            \* what validate returned (line 146)
    locals,         \* { username, sort, help, version, token, repo } (line 153)
    pc,             \* the control state of the running invocation
    page,           \* line 187
    list,           \* line 185
    response,       \* the last response of ghGot (line 192)
    requests,       \* the requests this invocation sent to the remote endpoint
    responses,      \* the successful responses this invocation received
    responseBody,   \* what loop() resolved to (line 222)
    stargazed,      \* the grouping (line 186)
    languages,      \* line 247
    readmeContent,  \* line 248
    readme,         \* what this invocation wrote to README.md
    stderr,         \* the message flashError printed
    exitCode,       \* the exit status of the process, once it has exited
    invocation,     \* how many times the exported function has been called
    pristine,       \* what validate yields for _options on a fresh options record
    visited         \* the control states this invocation has entered

vars == << options, _options, err, locals, pc, page, list, response, requests,
           responses, responseBody, stargazed, languages, readmeContent, readme,
           stderr, exitCode, invocation, pristine, visited >>

----------------------------------------------------------------------------
(* Bounds of the model.                                                    *)

MaxKeys == 2            \* keys of a configuration object handed to validate alone
MaxRunKeys == 2         \* keys of a configuration object handed to the pipeline
MaxInvocations == 2     \* calls of the exported function in one process
MaxPages == 3           \* pages the remote endpoint is asked for
MaxItems == 3           \* items of a fetched list handed to the aggregator
MaxDescLen == 3         \* characters of a description

----------------------------------------------------------------------------
(* JavaScript values: a type tag and a printed value.                      *)

Str(s) == [t |-> "string", v |-> s]
Bool(b) == [t |-> "boolean", v |-> IF b THEN "true" ELSE "false"]
Undefined == [t |-> "undefined", v |-> ""]
Null == [t |-> "null", v |-> ""]

\* ToBoolean: undefined, null, false and "" are falsy
Truthy(x) ==
    CASE x.t = "string" -> x.v # ""
      [] x.t = "boolean" -> x.v = "true"
      [] OTHER -> FALSE

\* a || b
Or(a, b) == IF Truthy(a) THEN a ELSE b

isString(x) == x.t = "string"
isBoolean(x) == x.t = "boolean"

\* A configuration: whether it is an object, and its own properties.
isObject(cfg) == cfg.obj
hasOwnProperty(cfg, k) == k \in DOMAIN cfg.props
Get(cfg, k) == IF k \in DOMAIN cfg.props THEN cfg.props[k] ELSE Undefined

----------------------------------------------------------------------------
(* validate (lines 15-74)                                                  *)

NoError == "null"

\* the seven checks of validate, in source order
Fields == <<
    [long |-> "username", short |-> "u", type |-> "string",
     message |-> "invalid option. Username must be a string primitive."],
    [long |-> "token", short |-> "t", type |-> "string",
     message |-> "invalid option. Token must be a string primitive."],
    [long |-> "repo", short |-> "r", type |-> "string",
     message |-> "invalid option. Repo name must be a string primitive."],
    [long |-> "message", short |-> "m", type |-> "string",
     message |-> "invalid option. Commit message must be a string primitive."],
    [long |-> "sort", short |-> "s", type |-> "boolean",
     message |-> "invalid option. Sort option must be a boolean primitive."],
    [long |-> "version", short |-> "v", type |-> "boolean",
     message |-> "invalid option. Version option must be a boolean primitive."],
    [long |-> "help", short |-> "h", type |-> "boolean",
     message |-> "invalid option. Help option must be a boolean primitive."] >>

EmptyOptions ==
    [username |-> Undefined, token |-> Undefined, repo |-> Undefined,
     message |-> Undefined, sort |-> Undefined, version |-> Undefined,
     help |-> Undefined]

HasType(type, x) == IF type = "string" THEN isString(x) ELSE isBoolean(x)

\* options.<long> = _options.<long> || _options.<short>
Canonical(cfg, f) == Or(Get(cfg, f.long), Get(cfg, f.short))

RECURSIVE validateFrom(_, _, _)
validateFrom(opts, cfg, i) ==
    IF i > Len(Fields) THEN [options |-> opts, err |-> NoError]
    ELSE LET f == Fields[i] IN
         IF hasOwnProperty(cfg, f.long) \/ hasOwnProperty(cfg, f.short)
         THEN LET set == [opts EXCEPT ![f.long] = Canonical(cfg, f)] IN
              IF ~HasType(f.type, set[f.long])
              THEN [options |-> set, err |-> f.message]
              ELSE validateFrom(set, cfg, i + 1)
         ELSE validateFrom(opts, cfg, i + 1)

validate(opts, cfg) ==
    IF ~isObject(cfg)
    THEN [options |-> opts,
          err |-> "invalid input argument. Options argument must be an object."]
    ELSE validateFrom(opts, cfg, 1)

----------------------------------------------------------------------------
(* Text: a description is a sequence of characters.                         *)

LF == "\n"
Whitespace == {" ", LF}
EntityGt == <<"&", "g", "t", ";">>
EntityLt == <<"&", "l", "t", ";">>

\* a description: absent (null), or a string of characters
NoText == [t |-> "null", v |-> <<>>]
Text(s) == [t |-> "string", v |-> s]

RECURSIVE ReplaceAll(_, _, _)
\* s.replace(new RegExp(ch, 'g'), rep)
ReplaceAll(s, ch, rep) ==
    IF s = <<>> THEN <<>>
    ELSE (IF Head(s) = ch THEN rep ELSE <<Head(s)>>) \o ReplaceAll(Tail(s), ch, rep)

RECURSIVE ReplaceFirst(_, _, _)
\* s.replace(ch, rep) with a string pattern: the first occurrence only
ReplaceFirst(s, ch, rep) ==
    IF s = <<>> THEN <<>>
    ELSE IF Head(s) = ch THEN rep \o Tail(s)
    ELSE <<Head(s)>> \o ReplaceFirst(Tail(s), ch, rep)

\* Object.entries(htmlEscapeTable) (lines 87-90), in property order
htmlEscapeTable == << <<">", EntityGt>>, <<"<", EntityLt>> >>

RECURSIVE htmlEscapeFrom(_, _)
htmlEscapeFrom(escStr, i) ==
    IF i > Len(htmlEscapeTable) THEN escStr
    ELSE htmlEscapeFrom(
             ReplaceAll(escStr, htmlEscapeTable[i][1], htmlEscapeTable[i][2]), i + 1)

\* htmlEscape, were the patterns not global
htmlEscapeFirstOnly(s) ==
    ReplaceFirst(ReplaceFirst(s, ">", EntityGt), "<", EntityLt)

\* String.prototype.htmlEscape (lines 95-101)
htmlEscape(s) == htmlEscapeFrom(s, 1)

RECURSIVE TrimStart(_)
TrimStart(s) ==
    IF s # <<>> /\ Head(s) \in Whitespace THEN TrimStart(Tail(s)) ELSE s

RECURSIVE TrimEnd(_)
TrimEnd(s) ==
    IF s # <<>> /\ s[Len(s)] \in Whitespace
    THEN TrimEnd(SubSeq(s, 1, Len(s) - 1)) ELSE s

\* String.prototype.trim
trim(s) == TrimEnd(TrimStart(s))

\* description ? description.htmlEscape().replace('\n', '') : ''  (line 231),
\* then description.trim() (line 235)
CleanDescription(description) ==
    IF description.t = "string" /\ description.v # <<>>
    THEN trim(ReplaceFirst(htmlEscape(description.v), LF, <<>>))
    ELSE <<>>

IsPrefix(p, s) == Len(p) <= Len(s) /\ SubSeq(s, 1, Len(p)) = p

RECURSIVE unescape(_)
\* lodash.unescape, for the entities of htmlEscapeTable
unescape(s) ==
    IF s = <<>> THEN <<>>
    ELSE IF IsPrefix(EntityLt, s) THEN <<"<">> \o unescape(SubSeq(s, 5, Len(s)))
    ELSE IF IsPrefix(EntityGt, s) THEN <<">">> \o unescape(SubSeq(s, 5, Len(s)))
    ELSE <<Head(s)>> \o unescape(Tail(s))

----------------------------------------------------------------------------
(* The grouping: a plain object, created by {} (line 186).                 *)

\* property names every plain object inherits from Object.prototype
ObjectPrototypeKeys ==
    {"constructor", "toString", "valueOf", "hasOwnProperty", "__proto__"}

\* property names that are array indices, with their numeric value
ArrayIndex == ("0" :> 0) @@ ("1" :> 1) @@ ("2" :> 2)

EmptyObject == [keys |-> <<>>, val |-> <<>>]

OwnKeys(obj) == {obj.keys[i] : i \in 1..Len(obj.keys)}

\* key in obj: own or inherited
In(key, obj) == key \in OwnKeys(obj) \/ key \in ObjectPrototypeKeys

\* obj[key] = value
SetProp(obj, key, value) ==
    [keys |-> IF key \in OwnKeys(obj) THEN obj.keys ELSE Append(obj.keys, key),
     val |-> [k \in OwnKeys(obj) \cup {key} |->
                 IF k = key THEN value ELSE obj.val[k]]]

RECURSIVE SortedIndices(_)
\* the array-index keys of a set, in ascending numeric order
SortedIndices(S) ==
    IF S = {} THEN <<>>
    ELSE LET m == CHOOSE k \in S : \A j \in S : ArrayIndex[k] <= ArrayIndex[j]
         IN <<m>> \o SortedIndices(S \ {m})

RECURSIVE Filter(_, _)
\* the elements of s outside S, in order
Filter(s, S) ==
    IF s = <<>> THEN <<>>
    ELSE (IF Head(s) \in S THEN <<>> ELSE <<Head(s)>>) \o Filter(Tail(s), S)

\* Object.keys(obj): array indices ascending, then strings in creation order
ObjectKeys(obj) ==
    LET idx == OwnKeys(obj) \cap DOMAIN ArrayIndex
    IN SortedIndices(idx) \o Filter(obj.keys, idx)

----------------------------------------------------------------------------
(* The aggregator (lines 227-238).                                         *)

\* the map callback, were the default taken with ?? and not with ||
AggregateItemNullish(obj, item) ==
    LET language == IF item.language = Null THEN "Others" ELSE item.language.v
        triple == <<item.name, item.html_url, CleanDescription(item.description)>>
    IN IF language \in OwnKeys(obj)
       THEN [obj |-> SetProp(obj, language, Append(obj.val[language], triple)),
             threw |-> FALSE]
       ELSE [obj |-> SetProp(obj, language, <<triple>>), threw |-> FALSE]

\* one call of the map callback (lines 229-236): the grouping afterwards, and
\* whether the callback threw
AggregateItem(obj, item) ==
    LET language == IF Truthy(item.language) THEN item.language.v ELSE "Others"
        description == CleanDescription(item.description)
        triple == <<item.name, item.html_url, description>>
    IN IF ~In(language, obj)
       THEN [obj |-> SetProp(obj, language, <<triple>>), threw |-> FALSE]
       ELSE IF language \in OwnKeys(obj)
       THEN [obj |-> SetProp(obj, language, Append(obj.val[language], triple)),
             threw |-> FALSE]
       \* an inherited property has no push: TypeError
       ELSE [obj |-> obj, threw |-> TRUE]

RECURSIVE AggregateFrom(_, _, _)
AggregateFrom(obj, items, i) ==
    IF i > Len(items) THEN [obj |-> obj, threw |-> FALSE]
    ELSE LET r == AggregateItem(obj, items[i]) IN
         IF r.threw THEN r ELSE AggregateFrom(r.obj, items, i + 1)

\* lines 227-238
Aggregated(body) ==
    IF body.isArray THEN AggregateFrom(EmptyObject, body.items, 1)
    ELSE [obj |-> EmptyObject, threw |-> FALSE]

----------------------------------------------------------------------------
(* The remote endpoint and the pagination header.                          *)

PerPage == 100

\* the link header: missing, or a string, here a sequence of lexical tokens
NoLink == [t |-> "undefined", v |-> <<>>]
Link(tokens) == [t |-> "string", v |-> tokens]

\* <host>; rel="next", <host>; rel="last"
LinkNextLast ==
    Link(<<"<", "host", ">", ";", "rel=", "next", ",",
           "<", "host", ">", ";", "rel=", "last">>)
\* <host>; rel="prev", <host>; rel="first"
LinkPrevFirst ==
    Link(<<"<", "host", ">", ";", "rel=", "prev", ",",
           "<", "host", ">", ";", "rel=", "first">>)
\* <host/next>; rel="prev": the letters "next" inside the target URL
LinkPrevNextInUrl ==
    Link(<<"<", "host", "next", ">", ";", "rel=", "prev">>)
\* not a list of link-values at all
LinkMalformed == Link(<<"rel=", ";", "<">>)

LinkHeaders == {NoLink, LinkNextLast, LinkPrevFirst, LinkPrevNextInUrl, LinkMalformed}

\* String.prototype.includes
includes(s, sub) ==
    \E i \in 1..(Len(s) - Len(sub) + 1) : SubSeq(s, i, i + Len(sub) - 1) = sub

\* headers.link && headers.link.includes('next')  (line 209)
HasNext(link) ==
    /\ link.t = "string"
    /\ link.v # <<>>
    /\ includes(link.v, <<"next">>)

\* one starred repository
Repo(name, language, description) ==
    [name |-> name, html_url |-> <<"url", name>>,
     language |-> language, description |-> description]

\* what the endpoint may hold on page p
Bodies(p) ==
    { <<>>,
      << Repo(10 * p + 1, Null, NoText),
         Repo(10 * p + 2, Str("Go"), Text(<<" ", "<", "a", ">">>)) >> }

\* gh-got sends the token option of the object it is given, when there is one
Authorization(cfg) ==
    IF Truthy(Get(cfg, "token")) THEN Get(cfg, "token") ELSE Undefined

\* ghGot(`users/${username}/starred?&per_page=100&page=${page}`, _options)
\* (lines 193-196)
Request(username, p, cfg) ==
    [username |-> username, per_page |-> PerPage, page |-> p,
     token |-> Authorization(cfg)]

----------------------------------------------------------------------------
(* The pipeline (module.exports, lines 145-254).                           *)

NoBody == [isArray |-> FALSE, items |-> <<>>]
Array(items) == [isArray |-> TRUE, items |-> items]
NoResponse == [body |-> <<>>, link |-> NoLink]
NoLocals ==
    [username |-> Undefined, sort |-> Undefined, help |-> Undefined,
     version |-> Undefined, token |-> Undefined, repo |-> Undefined]
NoContent == [rendered |-> FALSE, username |-> Undefined, index |-> <<>>, sections |-> <<>>]
NoConfig == [obj |-> FALSE, props |-> <<>>]
NotRunning == -1

\* const { username, sort, help, version, token, repo } = options  (line 153)
Destructure(opts) ==
    [username |-> opts.username, sort |-> opts.sort, help |-> opts.help,
     version |-> opts.version, token |-> opts.token, repo |-> opts.repo]

\* the configuration objects over a set of keys, of at most n properties
Values == {Str(""), Str("a"), Bool(TRUE), Bool(FALSE)}
ConfigsOver(keys, n) ==
    {[obj |-> TRUE, props |-> f] :
        f \in UNION {[S -> Values] : S \in {T \in SUBSET keys : Cardinality(T) <= n}}}

AllKeys == UNION {{Fields[i].long, Fields[i].short} : i \in 1..Len(Fields)}
RunKeys == {"username", "token", "t", "repo", "help"}

ValidateConfigs == ConfigsOver(AllKeys, MaxKeys) \cup {NoConfig}
RunConfigs == ConfigsOver(RunKeys, MaxRunKeys)

\* a call of the exported function (line 145)
Invoke ==
    /\ pc = "Idle"
    /\ exitCode = NotRunning
    /\ invocation < MaxInvocations
    /\ \E cfg \in RunConfigs : _options' = cfg
    /\ invocation' = invocation + 1
    /\ pc' = "Validating"
    /\ visited' = <<"Idle", "Validating">>
    /\ UNCHANGED <<options, err, locals, page, list, response, requests, responses,
                   responseBody, stargazed, languages, readmeContent, readme, stderr,
                   exitCode, pristine>>

\* the promise of an invocation settles and its locals are dropped; the
\* module-level options record stays as the invocation left it
Settle ==
    /\ pc \in {"Done", "Returned", "Rejected"}
    /\ pc' = "Idle"
    /\ visited' = <<"Idle">>
    /\ _options' = NoConfig
    /\ err' = NoError
    /\ locals' = NoLocals
    /\ page' = 1
    /\ list' = <<>>
    /\ response' = NoResponse
    /\ requests' = <<>>
    /\ responses' = <<>>
    /\ responseBody' = NoBody
    /\ stargazed' = EmptyObject
    /\ languages' = <<>>
    /\ readmeContent' = NoContent
    /\ readme' = NoContent
    /\ stderr' = ""
    /\ pristine' = [options |-> EmptyOptions, err |-> NoError]
    /\ UNCHANGED <<options, exitCode, invocation>>

\* flashError (lines 79-82): print the message, process.exit(1)
flashError(message) ==
    /\ stderr' = message
    /\ exitCode' = 1
    /\ pc' = "Fatal"
    /\ visited' = Append(visited, "Fatal")

Enter(state) ==
    /\ pc' = state
    /\ visited' = Append(visited, state)

\* the checks, were help and version looked at after the required fields
ChecksRequiredFirst(l) ==
    IF ~Truthy(l.username) THEN "Error! username is a required field."
    ELSE IF Truthy(l.repo) /\ ~Truthy(l.token)
    THEN "Error: creating repository needs token. Set --token"
    ELSE IF Truthy(l.help) \/ Truthy(l.version) THEN "return"
    ELSE "fetch"

\* the checks between validate and the fetch (lines 155-174): what the
\* invocation does next
Checks(l) ==
    IF Truthy(l.help) THEN "return"
    ELSE IF Truthy(l.version) THEN "return"
    ELSE IF ~Truthy(l.username) THEN "Error! username is a required field."
    ELSE IF Truthy(l.repo) /\ ~Truthy(l.token)
    THEN "Error: creating repository needs token. Set --token"
    ELSE "fetch"

\* lines 146-174: validate, then the checks of the required fields
Validate ==
    /\ pc = "Validating"
    /\ LET r == validate(options, _options)
           l == Destructure(r.options)
       IN /\ options' = r.options
          /\ err' = r.err
          /\ pristine' = validate(EmptyOptions, _options)
          /\ IF r.err # NoError
             THEN flashError(r.err) /\ UNCHANGED locals
             ELSE /\ locals' = l
                  /\ CASE Checks(l) = "return" ->
                            Enter("Returned") /\ UNCHANGED <<stderr, exitCode>>
                       [] Checks(l) = "fetch" ->
                            Enter("Fetching") /\ UNCHANGED <<stderr, exitCode>>
                       [] OTHER -> flashError(Checks(l))
    /\ UNCHANGED <<_options, page, list, response, requests, responses, responseBody,
                   stargazed, languages, readmeContent, readme, invocation>>

\* one round of loop() whose request succeeds (lines 191-219)
FetchOk ==
    /\ pc = "Fetching"
    /\ page <= MaxPages
    /\ \E body \in Bodies(page), link \in LinkHeaders :
          /\ requests' = Append(requests, Request(locals.username.v, page, _options))
          /\ response' = [body |-> body, link |-> link]
          /\ responses' = Append(responses, response')
          /\ list' = list \o body
          /\ IF HasNext(link)
             THEN /\ page' = page + 1
                  /\ UNCHANGED <<pc, visited, responseBody>>
             ELSE /\ responseBody' = Array(list')
                  /\ Enter("Aggregating")
                  /\ UNCHANGED page
    /\ UNCHANGED <<options, _options, err, locals, stargazed, languages,
                   readmeContent, readme, stderr, exitCode, invocation, pristine>>

\* the catch block, were flashError to return: loop() resolves to undefined
FetchFailReturns ==
    /\ pc = "Fetching"
    /\ page <= MaxPages
    /\ requests' = Append(requests, Request(locals.username.v, page, _options))
    /\ stderr' = "Error while fetching data!"
    /\ responseBody' = NoBody
    /\ Enter("Aggregating")
    /\ UNCHANGED <<options, _options, err, locals, page, list, response, responses,
                   stargazed, languages, readmeContent, readme, exitCode,
                   invocation, pristine>>

\* one round of loop() whose request fails (lines 195-201)
FetchFail ==
    /\ pc = "Fetching"
    /\ page <= MaxPages
    /\ requests' = Append(requests, Request(locals.username.v, page, _options))
    /\ flashError("Error while fetching data!")
    /\ UNCHANGED <<options, _options, err, locals, page, list, response, responses,
                   responseBody, stargazed, languages, readmeContent, readme,
                   invocation, pristine>>

\* lines 227-247: group the fetched items, list the languages
Aggregate ==
    /\ pc = "Aggregating"
    /\ LET r == Aggregated(responseBody)
       IN /\ stargazed' = r.obj
          /\ IF r.threw
             THEN Enter("Rejected") /\ UNCHANGED languages
             ELSE Enter("Rendering") /\ languages' = ObjectKeys(r.obj)
    /\ UNCHANGED <<options, _options, err, locals, page, list, response, requests,
                   responses, responseBody, readmeContent, readme, stderr, exitCode,
                   invocation, pristine>>

\* ejs.render(template, { languages, username, stargazed })  (lines 124-126)
Render(context) ==
    [rendered |-> TRUE,
     username |-> context.username,
     index |-> context.languages,
     sections |-> [i \in 1..Len(context.languages) |->
                      context.stargazed.val[context.languages[i]]]]

\* lodash.unescape over the rendered text
UnescapeContent(content) ==
    [content EXCEPT !.sections =
        [i \in 1..Len(content.sections) |->
            [j \in 1..Len(content.sections[i]) |->
                <<content.sections[i][j][1], content.sections[i][j][2],
                  unescape(content.sections[i][j][3])>>]]]

\* buildReadmeContent with the template read (lines 106-127, 248)
RenderOk ==
    /\ pc = "Rendering"
    /\ readmeContent' = Render([languages |-> languages, username |-> locals.username,
                                stargazed |-> stargazed])
    /\ Enter("Writing")
    /\ UNCHANGED <<options, _options, err, locals, page, list, response, requests,
                   responses, responseBody, stargazed, languages, readme, stderr,
                   exitCode, invocation, pristine>>

\* getReadmeTemplate cannot read the template (lines 113-116)
TemplateFail ==
    /\ pc = "Rendering"
    /\ flashError("README template loading fail")
    /\ UNCHANGED <<options, _options, err, locals, page, list, response, requests,
                   responses, responseBody, stargazed, languages, readmeContent, readme,
                   invocation, pristine>>

\* ejs.render throws: nothing catches it, the promise of the invocation rejects
RenderThrows ==
    /\ pc = "Rendering"
    /\ Enter("Rejected")
    /\ UNCHANGED <<options, _options, err, locals, page, list, response, requests,
                   responses, responseBody, stargazed, languages, readmeContent, readme,
                   stderr, exitCode, invocation, pristine>>

\* writeReadmeContent writes README.md (lines 132-143, 253)
WriteOk ==
    /\ pc = "Writing"
    /\ readme' = UnescapeContent(readmeContent)
    /\ Enter("Done")
    /\ UNCHANGED <<options, _options, err, locals, page, list, response, requests,
                   responses, responseBody, stargazed, languages, readmeContent, stderr,
                   exitCode, invocation, pristine>>

\* writeReadmeContent cannot write README.md (lines 138-141)
WriteFail ==
    /\ pc = "Writing"
    /\ flashError("README creation fail")
    /\ UNCHANGED <<options, _options, err, locals, page, list, response, requests,
                   responses, responseBody, stargazed, languages, readmeContent, readme,
                   invocation, pristine>>

----------------------------------------------------------------------------
(* The process: any number of calls of the exported function.              *)

Blank ==
    /\ err = NoError
    /\ locals = NoLocals
    /\ page = 1
    /\ list = <<>>
    /\ response = NoResponse
    /\ requests = <<>>
    /\ responses = <<>>
    /\ stargazed = EmptyObject
    /\ languages = <<>>
    /\ readmeContent = NoContent
    /\ readme = NoContent
    /\ stderr = ""
    /\ exitCode = NotRunning
    /\ pristine = [options |-> EmptyOptions, err |-> NoError]

Init ==
    /\ Blank
    /\ options = EmptyOptions
    /\ _options = NoConfig
    /\ pc = "Idle"
    /\ visited = <<"Idle">>
    /\ responseBody = NoBody
    /\ invocation = 0

Next ==
    \/ Invoke
    \/ Settle
    \/ Validate
    \/ FetchOk
    \/ FetchFail
    \/ Aggregate
    \/ RenderOk
    \/ TemplateFail
    \/ RenderThrows
    \/ WriteOk
    \/ WriteFail

Spec == Init /\ [][Next]_vars

(* validate alone, on every configuration object of at most MaxKeys keys.   *)

InitValidate ==
    /\ Blank
    /\ options = EmptyOptions
    /\ _options \in ValidateConfigs
    /\ pc = "Validating"
    /\ visited = <<"Idle", "Validating">>
    /\ responseBody = NoBody
    /\ invocation = 1

NextValidate == Validate

SpecValidate == InitValidate /\ [][NextValidate]_vars

(* The aggregator and what follows it, on every fetched list of at most     *)
(* MaxItems items, and on every description of at most MaxDescLen           *)
(* characters.                                                              *)

\* absent, empty, or a language name of the forge: none is an array index or
\* the name of a property of Object.prototype
Languages == {Null, Str(""), Str("Go"), Str("Others"), Str("C++")}
Chars == {"<", ">", LF, " ", "a"}

Descriptions ==
    {NoText} \cup {Text(s) : s \in UNION {[1..n -> Chars] : n \in 0..MaxDescLen}}

\* the lists whose items differ in language, and the lists of one described item
FetchedLists ==
    UNION {{[i \in 1..n |-> Repo(i, lang[i], NoText)] : lang \in [1..n -> Languages]} :
              n \in 0..MaxItems}
    \cup {<<Repo(1, Null, d)>> : d \in Descriptions}

InitAggregate ==
    /\ Blank
    /\ options = EmptyOptions
    /\ _options = NoConfig
    /\ pc = "Aggregating"
    /\ visited = <<"Idle", "Validating", "Fetching", "Aggregating">>
    /\ \E items \in FetchedLists : responseBody = Array(items)
    /\ invocation = 1

NextAggregate ==
    \/ Aggregate
    \/ RenderOk
    \/ TemplateFail
    \/ RenderThrows
    \/ WriteOk
    \/ WriteFail

SpecAggregate == InitAggregate /\ [][NextAggregate]_vars

----------------------------------------------------------------------------
(* Notions the claims use.                                                  *)

\* a link header advertises relation rel: it holds a link-value <...>; rel="rel"
Advertises(link, rel) ==
    /\ link.t = "string"
    /\ \E i \in 1..Len(link.v) - 1 :
          /\ link.v[i] = "rel="
          /\ link.v[i + 1] = rel
          /\ i > 3
          /\ link.v[i - 1] = ";"
          /\ link.v[i - 2] = ">"
          /\ \E j \in 1..(i - 3) : link.v[j] = "<"

RECURSIVE Concat(_)
Concat(bodies) == IF bodies = <<>> THEN <<>> ELSE Head(bodies) \o Concat(Tail(bodies))

Loaded == pc \notin {"Idle", "Validating"}
K == Len(responses)
Last == responses[K]

\* the group an item belongs to
KeyOf(item) == IF item.language \in {Null, Str("")} THEN "Others" ELSE item.language.v

RECURSIVE Select(_, _)
\* the items of the group key, in order
Select(items, key) ==
    IF items = <<>> THEN <<>>
    ELSE (IF KeyOf(Head(items)) = key THEN <<Head(items)>> ELSE <<>>)
         \o Select(Tail(items), key)

\* the keys of the items, each at its first occurrence
FirstOccurrences(items) ==
    LET first == {i \in 1..Len(items) :
                     \A j \in 1..(i - 1) : KeyOf(items[j]) # KeyOf(items[i])}
        nth[n \in 0..Len(items)] ==
            IF n = 0 THEN <<>>
            ELSE IF n \in first THEN Append(nth[n - 1], KeyOf(items[n]))
            ELSE nth[n - 1]
    IN nth[Len(items)]

Total(obj) ==
    LET sum[n \in 0..Len(obj.keys)] ==
            IF n = 0 THEN 0 ELSE sum[n - 1] + Len(obj.val[obj.keys[n]])
    IN sum[Len(obj.keys)]

\* the aggregator has run
AggregationOver ==
    /\ pc # "Aggregating"
    /\ \E i \in 1..Len(visited) : visited[i] = "Aggregating"

\* the description the grouping holds for the item named name
Stored(item) ==
    LET entry == stargazed.val[KeyOf(item)]
        at == CHOOSE j \in 1..Len(entry) : entry[j][1] = item.name
    IN entry[at][3]

\* s without its first line feed
WithoutFirstLF(s) ==
    IF \A k \in 1..Len(s) : s[k] # LF THEN s
    ELSE LET k == CHOOSE k \in 1..Len(s) : s[k] = LF /\ \A j \in 1..(k - 1) : s[j] # LF
         IN [i \in 1..(Len(s) - 1) |-> IF i < k THEN s[i] ELSE s[i + 1]]

\* s without its leading and trailing whitespace
Stripped(s) ==
    LET ink == {k \in 1..Len(s) : s[k] \notin Whitespace}
    IN IF ink = {} THEN <<>>
       ELSE LET lo == CHOOSE k \in ink : \A j \in ink : k <= j
                hi == CHOOSE k \in ink : \A j \in ink : k >= j
            IN [i \in 1..(hi - lo + 1) |-> s[lo + i - 1]]

\* s with every angle bracket written as its entity
Entities(s) ==
    LET out[n \in 0..Len(s)] ==
            IF n = 0 THEN <<>>
            ELSE out[n - 1] \o (CASE s[n] = "<" -> EntityLt
                                  [] s[n] = ">" -> EntityGt
                                  [] OTHER -> <<s[n]>>)
    IN out[Len(s)]

\* the recognized keys of a configuration all hold values of their type
WellTyped(cfg) ==
    \A i \in 1..Len(Fields) : \A k \in {Fields[i].long, Fields[i].short} :
        hasOwnProperty(cfg, k) => HasType(Fields[i].type, Get(cfg, k))

\* the target repo name is set: a non-empty string under repo or r
RepoSet(cfg) ==
    /\ isObject(cfg)
    /\ \E k \in {"repo", "r"} : isString(Get(cfg, k)) /\ Truthy(Get(cfg, k))

\* the configuration asks for the help or the version text
AsksForText(cfg) == \E k \in {"help", "h", "version", "v"} : hasOwnProperty(cfg, k)

\* the configuration holds a credential under token or t
CredentialKeys(cfg) == {k \in {"token", "t"} : hasOwnProperty(cfg, k)}

OriginalEdges ==
    { <<"Idle", "Validating">>, <<"Validating", "Fatal">>, <<"Validating", "Fetching">>,
      <<"Fetching", "Fatal">>, <<"Fetching", "Aggregating">>,
      <<"Aggregating", "Rendering">>, <<"Rendering", "Writing">>,
      <<"Writing", "Fatal">>, <<"Writing", "Done">> }

AmendedEdges ==
    OriginalEdges \cup { <<"Validating", "Returned">>, <<"Aggregating", "Rejected">>,
                         <<"Rendering", "Rejected">>, <<"Rendering", "Fatal">> }

Along(edges) ==
    /\ pc = visited[Len(visited)]
    /\ visited[1] = "Idle"
    /\ \A i \in 1..(Len(visited) - 1) : <<visited[i], visited[i + 1]>> \in edges
    /\ \A i, j \in 1..Len(visited) : visited[i] = visited[j] => i = j

----------------------------------------------------------------------------
(* The claims.                                                              *)

\* C1: when pages 1..k-1 advertise a next relation and page k does not, the
\* loop has ended after exactly k requests, for pages 1, 2, ..., k in order with
\* per_page=100, and returns the concatenation of the k page bodies.
C1_ExactlyKRequestsInOrder ==
    ( /\ K >= 1
      /\ \A i \in 1..(K - 1) : Advertises(responses[i].link, "next")
      /\ ~Advertises(Last.link, "next") )
    => /\ pc # "Fetching"
       /\ Len(requests) = K
       /\ \A i \in 1..K : requests[i].page = i /\ requests[i].per_page = 100
       /\ responseBody = Array(Concat([i \in 1..K |-> responses[i].body]))

\* C2: after a successful response the loop issues another request if and only
\* if that response advertises a next relation; a missing or malformed header,
\* or one with other relations only, ends the loop.
C2_NextRequestIffNextAdvertised ==
    K >= 1 =>
       /\ \A i \in 1..(K - 1) : Advertises(responses[i].link, "next")
       /\ Advertises(Last.link, "next")
             => \/ pc = "Fetching" /\ page = K + 1 /\ Len(requests) = K
                \/ pc = "Fatal" /\ Len(requests) = K + 1
       /\ ~Advertises(Last.link, "next") => pc # "Fetching" /\ Len(requests) = K

\* C3: a configuration with the repo name set and no credential ends the
\* pipeline fatally, with no request issued and no README written (read for the
\* configurations that do not ask for the help or the version text).
C3_RepoWithoutTokenIsFatal ==
    (Loaded /\ RepoSet(_options) /\ CredentialKeys(_options) = {} /\ ~AsksForText(_options))
    => /\ pc = "Fatal"
       /\ exitCode = 1
       /\ requests = <<>>
       /\ ~readme.rendered

\* C4: validate returns an error if and only if a recognized key holds a
\* value of the wrong type; with every present key well typed, each canonical
\* field holds the value supplied under a present alias.
C4_ValidateTypeErrorIff ==
    (Loaded /\ isObject(_options))
    => /\ err = NoError <=> WellTyped(_options)
       /\ WellTyped(_options) =>
             \A i \in 1..Len(Fields) :
                LET present == {k \in {Fields[i].long, Fields[i].short} :
                                   hasOwnProperty(_options, k)}
                IN present # {} =>
                      \E k \in present : options[Fields[i].long] = Get(_options, k)

\* C5: a credential supplied under token or under t is carried by every
\* request; without one, requests carry none.
C5_EveryRequestCarriesCredential ==
    \A i \in 1..Len(requests) :
       IF CredentialKeys(_options) = {} THEN requests[i].token = Undefined
       ELSE \E k \in CredentialKeys(_options) : requests[i].token = Get(_options, k)

\* C6: a failed request ends the pipeline fatally: it is the last request (no
\* retry, no further page), the loop returns nothing, and nothing is grouped,
\* rendered or written.
C6_FetchFailureIsFatal ==
    stderr = "Error while fetching data!"
    => /\ pc = "Fatal"
       /\ exitCode = 1
       /\ Len(requests) = K + 1
       /\ requests[K + 1].page = K + 1
       /\ responseBody = NoBody
       /\ stargazed = EmptyObject
       /\ ~readmeContent.rendered
       /\ ~readme.rendered

C6_Witness ==
    /\ stderr = "Error while fetching data!"
    /\ K = 2
    /\ list # <<>>

C8_DescriptionIsCleaned ==
    (AggregationOver /\ pc # "Rejected" /\ responseBody.isArray) =>
       \A i \in 1..Len(responseBody.items) :
          LET item == responseBody.items[i]
              stored == Stored(item)
          IN IF item.description = NoText THEN stored = <<>>
             ELSE /\ \A k \in 1..Len(stored) : stored[k] \notin {"<", ">"}
                  /\ stored # <<>> =>
                        stored[1] \notin Whitespace /\ stored[Len(stored)] \notin Whitespace
                  /\ stored = Entities(Stripped(WithoutFirstLF(item.description.v)))

C8_Witness ==
    /\ pc = "Rendering"
    /\ Len(responseBody.items) = 1
    /\ responseBody.items[1].description = Text(<<" ", "<", LF>>)
    /\ Stored(responseBody.items[1]) = EntityLt

\* C9, as stated: a run moves only along Idle -> Validating -> (Fatal | Fetching)
\* -> (Fatal | Aggregating) -> Rendering -> Writing -> (Fatal | Done), entering
\* no state twice but the page loop.
C9_OriginalStateMachine == Along(OriginalEdges)

\* C9, amended: a run moves only along Idle -> Validating -> (Fatal | Returned |
\* Fetching) -> (Fatal | Aggregating) -> (Rejected | Rendering) -> (Fatal |
\* Rejected | Writing) -> (Fatal | Done), entering no state twice but the page loop; after
\* Validating it is Returned exactly when validate reported no error and the
\* help or version option holds, Fatal exactly when an error was reported, and
\* Fetching otherwise.
C9_AmendedStateMachine ==
    /\ Along(AmendedEdges)
    /\ Len(visited) >= 3 =>
          /\ visited[3] = "Returned" <=>
                err = NoError /\ (Truthy(options.help) \/ Truthy(options.version))
          /\ visited[3] = "Fatal" <=>
                \/ err # NoError
                \/ /\ ~Truthy(options.help) /\ ~Truthy(options.version)
                   /\ \/ ~Truthy(options.username)
                      \/ Truthy(options.repo) /\ ~Truthy(options.token)

C9_Witness ==
    /\ visited = <<"Idle", "Validating", "Fetching", "Aggregating", "Rendering", "Fatal">>
    /\ stderr = "README template loading fail"

\* C10: an invocation behaves as if it were the first of its process: what
\* validate reports, and the option values the invocation then acts on, are
\* those its own configuration object yields on a fresh options record.
C10_InvocationsAreIndependent ==
    Loaded =>
       /\ err = pristine.err
       /\ err = NoError => locals = Destructure(pristine.options)

====
